---------------------------- MODULE Spec2Model ----------------------------
(***************************************************************************)
(* elf2tab: the ELF -> TBF conversion of src/main.rs (elf_to_tbf).         *)
(*                                                                         *)
(* One conversion is a sequential pipeline.  The ELF file and the command  *)
(* line arguments are chosen in the initial state and never change; every  *)
(* local of elf_to_tbf is a variable, and pc is the position in the        *)
(* function.  Bytes are integers 0..255, byte buffers are sequences, and   *)
(* section names are sequences of one-character strings so that            *)
(* `contains`, `find` and string concatenation are computed, not assumed.  *)
(* The verbose flag only prints and is left out.                           *)
(***************************************************************************)
EXTENDS Integers, Sequences, FiniteSets

VARIABLES
    input,                      \* &elf::File: [sections, phdrs, entry]
    package_name_arg,           \* Option<String>
    stack_len, app_heap_len, kernel_heap_len,       \* u32, as two halves
    protected_region_size_arg,  \* Option<u32>
    pc,                         \* position in elf_to_tbf
    sections_sort,              \* Vec<(usize, usize)>
    minimum_ram_size,           \* u32, as two halves
    rel_sections,               \* Vec<String>
    writeable_flash_regions_count,
    binary_index,               \* usize
    tbfheader,                  \* header::TbfHeader
    header_length,              \* usize
    protected_region_size,      \* u32
    init_fn_offset,             \* u32
    binary,                     \* Vec<u8>
    entry_point_found,          \* bool
    s_idx,                      \* position of `for s in &sections_sort` (2nd loop)
    relocation_binary,          \* Vec<u8>
    post_content_pad,           \* usize
    output                      \* the bytes the sink W has received

vars == << input, package_name_arg, stack_len, app_heap_len, kernel_heap_len,
           protected_region_size_arg, pc, sections_sort, minimum_ram_size,
           rel_sections, writeable_flash_regions_count, binary_index,
           tbfheader, header_length, protected_region_size, init_fn_offset,
           binary, entry_point_found, s_idx, relocation_binary,
           post_content_pad, output >>

inputs == << input, package_name_arg, stack_len, app_heap_len,
             kernel_heap_len, protected_region_size_arg >>

-----------------------------------------------------------------------------
(* Bounds of the model.                                                    *)

MaxSections == 2        \* sections per ELF file in Spec
MaxRelSections == 4     \* sections per ELF file in SpecReloc
MaxSegments == 2        \* program segments per ELF file in SpecRam

-----------------------------------------------------------------------------
(* Machine integers and Option.                                            *)

\* TLC's integers end at 2^31 - 1, so a value that may reach 2^32 is held as
\* two 16-bit halves << hi, lo >>, meaning hi * 2^16 + lo.
Half == 65536

\* `as u32` of a usize the model can hold as one integer
U32(x) == (x % Half) + Half * ((x \div Half) % Half)

Wide(n) == << n \div Half, n % Half >>
WNorm(hi, lo) == << hi + (lo \div Half), lo % Half >>
WAdd(a, b) == WNorm(a[1] + b[1], a[2] + b[2])
WFitsU32(a) == a[1] < Half
\* `as u32`, and the result of a u32 addition that wraps
WU32(a) == << a[1] % Half, a[2] >>

None == << >>
Some(v) == << v >>
IsSome(o) == Len(o) = 1
Unwrap(o) == o[1]

Max(a, b) == IF a >= b THEN a ELSE b

RECURSIVE Pow2(_)
Pow2(n) == IF n = 0 THEN 1 ELSE 2 * Pow2(n - 1)

\* usize::count_ones
RECURSIVE CountOnes(_)
CountOnes(x) == IF x = 0 THEN 0 ELSE (x % 2) + CountOnes(x \div 2)

\* number of significant bits of x
RECURSIVE BitLen(_)
BitLen(x) == IF x = 0 THEN 0 ELSE 1 + BitLen(x \div 2)

\* u32::leading_zeros
LeadingZeros(x) == 32 - BitLen(x)

\* u32::to_le_bytes
ToLeBytes(x) == << x % 256, (x \div 256) % 256, (x \div 65536) % 256,
                   (x \div 16777216) % 256 >>

Zeros(n) == [j \in 1..n |-> 0]

-----------------------------------------------------------------------------
(* Strings as sequences of characters.                                     *)

\* str::contains / str::find(..).is_some()
Contains(s, pat) ==
    \E k \in 0..(Len(s) - Len(pat)) : SubSeq(s, k + 1, k + Len(pat)) = pat

StrWfr == << ".", "w", "f", "r" >>
StrDebug == << "d", "e", "b", "u", "g" >>
StrRel == << ".", "r", "e", "l" >>

-----------------------------------------------------------------------------
(* ELF constants of the elf crate (elf::types).                            *)

PT_LOAD == 1
PF_W == 2
PF_R == 4
SHT_PROGBITS == 1
SHF_WRITE == 1
SHF_ALLOC == 2
SHF_EXECINSTR == 4

\* bitwise and of two naturals
RECURSIVE BitAnd(_, _)
BitAnd(a, b) ==
    IF a = 0 \/ b = 0 THEN 0
    ELSE (IF a % 2 = 1 /\ b % 2 = 1 THEN 1 ELSE 0) + 2 * BitAnd(a \div 2, b \div 2)

-----------------------------------------------------------------------------
(* util.rs: alignment macros and padding.                                  *)

\* align4!(e) and align8!(e) on a wide value: 4 and 8 divide 2^16, so
\* e % 4 and e % 8 are those of the low half
Align4(e) == WNorm(e[1], e[2] + ((4 - (e[2] % 4)) % 4))
Align8(e) == WNorm(e[1], e[2] + ((8 - (e[2] % 8)) % 8))
DoPad(out, n) == out \o Zeros(n)

-----------------------------------------------------------------------------
(* header.rs: the two-phase TBF header builder.  The header keeps the      *)
(* values it was given; calls is the order in which its methods ran.       *)

HeaderFixedLen == 32    \* bytes of the fixed header fields
WfrSlotLen == 8         \* bytes of one writeable-flash-region slot
HeaderByte == 255       \* stands for one byte of the serialized header

TbfHeaderNew ==
    [ calls |-> << >>, minimum_ram_size |-> Wide(0), wfr_slots |-> 0,
      package_name |-> << >>, length |-> 0, protected_size |-> 0,
      init_fn_offset |-> 0, total_size |-> 0, wfr_values |-> << >> ]

TbfHeaderCreate(h, ram, count, name) ==
    [ h EXCEPT !.calls = Append(@, "create"),
               !.minimum_ram_size = ram,
               !.wfr_slots = count,
               !.package_name = name,
               !.length = HeaderFixedLen + WfrSlotLen * count + Len(name) ]

TbfSetProtectedSize(h, size) ==
    [ h EXCEPT !.calls = Append(@, "set_protected_size"),
               !.protected_size = size ]

TbfSetInitFnOffset(h, off) ==
    [ h EXCEPT !.calls = Append(@, "set_init_fn_offset"),
               !.init_fn_offset = off ]

TbfSetWriteableFlashRegionValues(h, off, size) ==
    [ h EXCEPT !.calls = Append(@, "set_writeable_flash_region_values"),
               !.wfr_values = Append(@, << off, size >>) ]

TbfSetTotalSize(h, size) ==
    [ h EXCEPT !.calls = Append(@, "set_total_size"),
               !.total_size = size ]

TbfGenerate(h) == [j \in 1..h.length |-> HeaderByte]

Called(h, method) == \E k \in 1..Len(h.calls) : h.calls[k] = method

-----------------------------------------------------------------------------
(* elf_to_tbf: the pure parts.                                             *)

\* sections_sort.push((i, offset)) for every section, in file order
SectionPairs(sections) ==
    [i \in 1..Len(sections) |-> << i, sections[i].offset >>]

\* Variant of SortByKey: x goes in front of the elements with an equal key, so
\* sections with equal offsets come out in reverse file order.
RECURSIVE InsertBeforeEqual(_, _)
InsertBeforeEqual(x, sorted) ==
    IF sorted = << >> THEN << x >>
    ELSE IF x[2] <= Head(sorted)[2] THEN << x >> \o sorted
    ELSE << Head(sorted) >> \o InsertBeforeEqual(x, Tail(sorted))

RECURSIVE SortByKeyUnstable(_)
SortByKeyUnstable(pairs) ==
    IF pairs = << >> THEN << >>
    ELSE InsertBeforeEqual(pairs[Len(pairs)],
                           SortByKeyUnstable(SubSeq(pairs, 1, Len(pairs) - 1)))

\* place x behind every element whose key is not larger: a stable insertion
RECURSIVE InsertByKey(_, _)
InsertByKey(x, sorted) ==
    IF sorted = << >> THEN << x >>
    ELSE IF x[2] < Head(sorted)[2] THEN << x >> \o sorted
    ELSE << Head(sorted) >> \o InsertByKey(x, Tail(sorted))

\* Vec::sort_by_key(|s| s.1): a stable sort on the file offset
RECURSIVE SortByKey(_)
SortByKey(pairs) ==
    IF pairs = << >> THEN << >>
    ELSE InsertByKey(pairs[Len(pairs)], SortByKey(SubSeq(pairs, 1, Len(pairs) - 1)))

\* the first PT_LOAD segment with flags exactly PF_W + PF_R: memsz as u32
RECURSIVE FirstRamSegment(_)
FirstRamSegment(phdrs) ==
    IF phdrs = << >> THEN Wide(0)
    ELSE IF Head(phdrs).progtype = PT_LOAD /\ Head(phdrs).flags = PF_W + PF_R
         THEN WU32(Head(phdrs).memsz)
         ELSE FirstRamSegment(Tail(phdrs))

\* minimum_ram_size += align8!(stack) + align4!(app_heap) + align4!(kernel_heap),
\* before the result is cut to 32 bits
RamSum(base, stack, app_heap, kernel_heap) ==
    WAdd(base, WAdd(WAdd(Align8(stack), Align4(app_heap)), Align4(kernel_heap)))

IsWfr(section) == Contains(section.name, StrWfr) /\ section.size > 0

\* Variant of IsRelSource: any writeable section, whatever its other flags.
IsRelSourceAnyWriteable(section) == BitAnd(section.flags, SHF_WRITE) # 0

IsRelSource(section) == section.flags = SHF_WRITE + SHF_ALLOC

RECURSIVE CountWfr(_, _)
CountWfr(sections, sorted) ==
    IF sorted = << >> THEN 0
    ELSE (IF IsWfr(sections[Head(sorted)[1]]) THEN 1 ELSE 0)
         + CountWfr(sections, Tail(sorted))

RECURSIVE RelSections(_, _)
RelSections(sections, sorted) ==
    IF sorted = << >> THEN << >>
    ELSE (IF IsRelSource(sections[Head(sorted)[1]])
          THEN << sections[Head(sorted)[1]].name >> ELSE << >>)
         \o RelSections(sections, Tail(sorted))

\* Variant of HeaderFits: a region of exactly the header length is refused.
HeaderFitsStrictly(fixed, hlen) == fixed > hlen

\* fixed_protected_region_size < header_length is the error
HeaderFits(fixed, hlen) == ~(fixed < hlen)

\* Variant of IsEntryBearing: debug sections are not set aside.
IsEntryBearingAnyName(entry, section) ==
    /\ entry >= section.addr
    /\ entry < section.addr + section.size

IsEntryBearing(entry, section) ==
    /\ entry >= section.addr
    /\ entry < section.addr + section.size
    /\ ~Contains(section.name, StrDebug)

\* Variant of EntryOffset: measured from the start of the image.
EntryOffsetFromImageStart(entry, section, bindex, hlen) ==
    U32(U32(entry - section.addr) + U32(bindex))

EntryOffset(entry, section, bindex, hlen) ==
    U32(U32(entry - section.addr) + U32(bindex - hlen))

IsEmitted(section) ==
    /\ BitAnd(section.flags, SHF_WRITE + SHF_EXECINSTR + SHF_ALLOC) # 0
    /\ section.shtype = SHT_PROGBITS
    /\ section.size > 0

\* Variant of WfrRegion: the offset is taken after the section was counted.
WfrRegionAfterSection(bindex, section) ==
    << U32(bindex + section.size), U32(section.size) >>

\* the arguments of set_writeable_flash_region_values
WfrRegion(bindex, section) == << U32(bindex), U32(section.size) >>

NextBinaryIndex(bindex, section) == bindex + section.size

RelocationName(name) == StrRel \o name

\* input.sections.iter().find(|s| s.shdr.name == name).map_or(&[], |s| s.data)
RECURSIVE FindRelData(_, _)
FindRelData(sections, name) ==
    IF sections = << >> THEN << >>
    ELSE IF Head(sections).name = name THEN Head(sections).data
    ELSE FindRelData(Tail(sections), name)

RECURSIVE PackRelocationData(_, _)
PackRelocationData(sections, names) ==
    IF names = << >> THEN << >>
    ELSE FindRelData(sections, RelocationName(Head(names)))
         \o PackRelocationData(sections, Tail(names))

\* Variant of PrePadLength: the 4 bytes of the length field are not counted.
PrePadLengthNoLengthField(bindex, relocation) == bindex + Len(relocation)

\* binary_index += relocation_binary.len() + size_of::<u32>()
PrePadLength(bindex, relocation) == bindex + Len(relocation) + 4

PostContentPad(bindex) ==
    IF CountOnes(bindex) > 1
    THEN Max(Pow2(32 - LeadingZeros(U32(bindex))), 512) - bindex
    ELSE 0

-----------------------------------------------------------------------------
(* The inputs of one conversion.                                           *)

SeqsUpTo(S, n) == UNION { [1..k -> S] : k \in 0..n }

NameText == << ".", "t", "e", "x", "t" >>
NameData == << ".", "d", "a", "t", "a" >>
NameBss == << ".", "b", "s", "s" >>
NameRelData == StrRel \o NameData
NameRelBss == StrRel \o NameBss
NameWfr == << ".", "w", "f", "r" >>
NameDebug == << ".", "d", "e", "b", "u", "g" >>

\* what kinds of section an ELF file of the model holds; `tag` makes the
\* data bytes of one kind differ from those of every other kind.  Section
\* type 8 is SHT_NOBITS and 9 is SHT_REL.
SectionKinds ==
    { [name |-> NameText, flags |-> SHF_ALLOC + SHF_EXECINSTR,
       shtype |-> SHT_PROGBITS, tag |-> 16],
      [name |-> NameData, flags |-> SHF_WRITE + SHF_ALLOC,
       shtype |-> SHT_PROGBITS, tag |-> 32],
      [name |-> NameData, flags |-> SHF_WRITE + SHF_ALLOC + SHF_EXECINSTR,
       shtype |-> SHT_PROGBITS, tag |-> 48],
      [name |-> NameRelData, flags |-> 0,
       shtype |-> 9, tag |-> 64],
      [name |-> NameWfr, flags |-> SHF_ALLOC,
       shtype |-> SHT_PROGBITS, tag |-> 80],
      [name |-> NameWfr, flags |-> SHF_WRITE + SHF_ALLOC,
       shtype |-> 8, tag |-> 96],
      [name |-> NameDebug, flags |-> 0,
       shtype |-> SHT_PROGBITS, tag |-> 112] }

\* elf::Section: the header fields the conversion reads, and the data, which
\* the elf crate reads as shdr.size bytes
MkSection(kind, size, offset, addr) ==
    [ name |-> kind.name, flags |-> kind.flags, shtype |-> kind.shtype,
      offset |-> offset, addr |-> addr, size |-> size,
      data |-> [j \in 1..size |-> kind.tag + j] ]

\* << size, file offset, virtual address >> of a section.  With the entry
\* address 1: an empty section; one that does not hold the entry; one that
\* holds it at its first byte; one that holds it at its second byte.
Placements == { << 0, 1, 0 >>, << 1, 0, 0 >>, << 1, 1, 1 >>, << 2, 0, 0 >> }

Sections ==
    { MkSection(k, p[1], p[2], p[3]) : k \in SectionKinds, p \in Placements }

EntryAddress == 1

\* elf::types::ProgramHeader
MkSegment(progtype, flags, memsz) ==
    [ progtype |-> progtype, flags |-> flags, memsz |-> memsz ]

\* the arguments of one call: section lists, segment lists, entry addresses,
\* package names, stack sizes, app heap sizes, kernel heap sizes and
\* protected-region sizes to choose from
InitWith(secs, segs, entries, names, stacks, aheaps, kheaps, prs) ==
    /\ input \in [ sections : secs, phdrs : segs, entry : entries ]
    /\ package_name_arg \in names
    /\ stack_len \in stacks
    /\ app_heap_len \in aheaps
    /\ kernel_heap_len \in kheaps
    /\ protected_region_size_arg \in prs
    /\ pc = "sort"
    /\ sections_sort = << >>
    /\ minimum_ram_size = Wide(0)
    /\ rel_sections = << >>
    /\ writeable_flash_regions_count = 0
    /\ binary_index = 0
    /\ tbfheader = TbfHeaderNew
    /\ header_length = 0
    /\ protected_region_size = 0
    /\ init_fn_offset = 0
    /\ binary = << >>
    /\ entry_point_found = FALSE
    /\ s_idx = 0
    /\ relocation_binary = << >>
    /\ post_content_pad = 0
    /\ output = << >>

\* Every list of sections, with one RAM segment.  The protected-region sizes
\* are below, at and above the header length (32, 40, 48 bytes for 0, 1, 2
\* writeable flash regions), and make images of 128, of 512 and of more
\* than 512 bytes before padding.
Init ==
    InitWith(SeqsUpTo(Sections, MaxSections),
             { << MkSegment(PT_LOAD, PF_W + PF_R, Wide(256)) >> },
             { EntryAddress }, { None },
             { Wide(2048) }, { Wide(1024) }, { Wide(1024) },
             { None, Some(32), Some(40), Some(124), Some(508) })

\* Sections for the relocation block: two writeable+allocated sections and
\* their companions, which the file holds in another order than the layout
\* puts their sources, and a .data section with a third flag.  The last one
\* and the first .data both hold the entry address.
RelocSections ==
    { MkSection([name |-> NameData, flags |-> SHF_WRITE + SHF_ALLOC,
                 shtype |-> SHT_PROGBITS, tag |-> 32], 2, 2, 0),
      MkSection([name |-> NameBss, flags |-> SHF_WRITE + SHF_ALLOC,
                 shtype |-> 8, tag |-> 0], 1, 1, 4),
      MkSection([name |-> NameRelData, flags |-> 0,
                 shtype |-> 9, tag |-> 64], 2, 0, 8),
      MkSection([name |-> NameRelBss, flags |-> 0,
                 shtype |-> 9, tag |-> 128], 1, 3, 8),
      MkSection([name |-> NameData,
                 flags |-> SHF_WRITE + SHF_ALLOC + SHF_EXECINSTR,
                 shtype |-> SHT_PROGBITS, tag |-> 48], 1, 3, 1) }

InitReloc ==
    InitWith(SeqsUpTo(RelocSections, MaxRelSections),
             { << MkSegment(PT_LOAD, PF_W + PF_R, Wide(256)) >> },
             { EntryAddress }, { None },
             { Wide(2048) }, { Wide(1024) }, { Wide(1024) },
             { None, Some(8), Some(60) })

\* Segments for the RAM size: loadable (PT_LOAD) or dynamic (2), read+write
\* or with the execute flag (1) as well; stack and heap sizes that are zero, aligned, unaligned, and 2^31,
\* two of which no longer add up within u32.
RamSegments ==
    { MkSegment(t, f, Wide(m)) :
        t \in { PT_LOAD, 2 }, f \in { PF_W + PF_R, 1 + PF_W + PF_R },
        m \in { 100, 256 } }

TwoPow31 == << Half \div 2, 0 >>

InitRam ==
    InitWith({ << >>,
               << MkSection([name |-> NameText,
                             flags |-> SHF_ALLOC + SHF_EXECINSTR,
                             shtype |-> SHT_PROGBITS, tag |-> 16], 2, 0, 0),
                  MkSection([name |-> NameData, flags |-> SHF_WRITE + SHF_ALLOC,
                             shtype |-> SHT_PROGBITS, tag |-> 32], 1, 1, 1) >> },
             SeqsUpTo(RamSegments, MaxSegments),
             { EntryAddress },
             { None, Some(<< "a", "p", "p" >>) },
             { Wide(0), Wide(2041), Wide(2048), TwoPow31 },
             { Wide(0), Wide(1022), TwoPow31 },
             { Wide(0), Wide(1024) },
             { None, Some(8), Some(60) })

-----------------------------------------------------------------------------
(* elf_to_tbf, step by step.                                               *)

\* lines 145-149
SortSections ==
    /\ pc = "sort"
    /\ sections_sort' = SortByKey(SectionPairs(input.sections))
    /\ pc' = "ram"
    /\ UNCHANGED << inputs, minimum_ram_size, rel_sections,
                    writeable_flash_regions_count, binary_index, tbfheader,
                    header_length, protected_region_size, init_fn_offset,
                    binary, entry_point_found, s_idx, relocation_binary,
                    post_content_pad, output >>

\* lines 153-176.  The additions are u32: a sum of 2^32 or more panics in a
\* build with overflow checks and wraps in a build without.
ComputeRam ==
    /\ pc = "ram"
    /\ \E checked \in BOOLEAN :
         LET sum == RamSum(FirstRamSegment(input.phdrs), stack_len,
                           app_heap_len, kernel_heap_len)
         IN IF ~WFitsU32(sum) /\ checked
            THEN pc' = "panic_overflow" /\ UNCHANGED minimum_ram_size
            ELSE pc' = "scan" /\ minimum_ram_size' = WU32(sum)
    /\ UNCHANGED << inputs, sections_sort, rel_sections,
                    writeable_flash_regions_count, binary_index, tbfheader,
                    header_length, protected_region_size, init_fn_offset,
                    binary, entry_point_found, s_idx, relocation_binary,
                    post_content_pad, output >>

\* lines 180-203
ScanSections ==
    /\ pc = "scan"
    /\ writeable_flash_regions_count' = CountWfr(input.sections, sections_sort)
    /\ rel_sections' = RelSections(input.sections, sections_sort)
    /\ pc' = "create"
    /\ UNCHANGED << inputs, sections_sort, minimum_ram_size, binary_index,
                    tbfheader, header_length, protected_region_size,
                    init_fn_offset, binary, entry_point_found, s_idx,
                    relocation_binary, post_content_pad, output >>

\* lines 212-221
CreateHeader ==
    /\ pc = "create"
    /\ LET name == IF IsSome(package_name_arg) THEN Unwrap(package_name_arg)
                   ELSE << >>
           h == TbfHeaderCreate(TbfHeaderNew, minimum_ram_size,
                                writeable_flash_regions_count, name)
       IN /\ tbfheader' = h
          /\ header_length' = h.length
    /\ binary_index' = 0
    /\ pc' = "protect"
    /\ UNCHANGED << inputs, sections_sort, minimum_ram_size, rel_sections,
                    writeable_flash_regions_count, protected_region_size,
                    init_fn_offset, binary, entry_point_found, s_idx,
                    relocation_binary, post_content_pad, output >>

\* lines 245-258, once protected_region_size is known
StartLayout(prs) ==
    /\ protected_region_size' = prs
    /\ binary_index' = binary_index + prs
    /\ init_fn_offset' = 0
    /\ binary' = Zeros(prs - header_length)
    /\ entry_point_found' = FALSE
    /\ s_idx' = 1
    /\ pc' = "layout"

\* lines 225-236: return Err(InvalidInput, "... too small ...")
ProtectedRegionTooSmall ==
    /\ pc = "protect"
    /\ IsSome(protected_region_size_arg)
    /\ ~HeaderFits(Unwrap(protected_region_size_arg), U32(header_length))
    /\ pc' = "err_too_small"
    /\ UNCHANGED << inputs, sections_sort, minimum_ram_size, rel_sections,
                    writeable_flash_regions_count, binary_index, tbfheader,
                    header_length, protected_region_size, init_fn_offset,
                    binary, entry_point_found, s_idx, relocation_binary,
                    post_content_pad, output >>

\* lines 225-241: the caller's size, and set_protected_size
ProtectedRegionFixed ==
    /\ pc = "protect"
    /\ IsSome(protected_region_size_arg)
    /\ HeaderFits(Unwrap(protected_region_size_arg), U32(header_length))
    /\ tbfheader' = TbfSetProtectedSize(tbfheader,
                        Unwrap(protected_region_size_arg) - U32(header_length))
    /\ StartLayout(Unwrap(protected_region_size_arg))
    /\ UNCHANGED << inputs, sections_sort, minimum_ram_size, rel_sections,
                    writeable_flash_regions_count, header_length,
                    relocation_binary, post_content_pad, output >>

\* lines 242-244: the header length is the protected region
ProtectedRegionDefault ==
    /\ pc = "protect"
    /\ ~IsSome(protected_region_size_arg)
    /\ StartLayout(U32(header_length))
    /\ UNCHANGED << inputs, sections_sort, minimum_ram_size, rel_sections,
                    writeable_flash_regions_count, tbfheader, header_length,
                    relocation_binary, post_content_pad, output >>

CurrentSection == input.sections[sections_sort[s_idx][1]]

\* lines 261-321, one iteration
LayoutSection ==
    /\ pc = "layout"
    /\ s_idx <= Len(sections_sort)
    /\ LET section == CurrentSection
           bearing == IsEntryBearing(input.entry, section)
       IN /\ ~(bearing /\ entry_point_found)
          /\ entry_point_found' = (entry_point_found \/ bearing)
          /\ init_fn_offset' =
                IF bearing
                THEN EntryOffset(input.entry, section, binary_index, header_length)
                ELSE init_fn_offset
          /\ IF IsEmitted(section)
             THEN /\ binary' = binary \o section.data
                  /\ tbfheader' =
                        IF IsWfr(section)
                        THEN TbfSetWriteableFlashRegionValues(
                                 tbfheader,
                                 WfrRegion(binary_index, section)[1],
                                 WfrRegion(binary_index, section)[2])
                        ELSE tbfheader
                  /\ binary_index' = NextBinaryIndex(binary_index, section)
             ELSE UNCHANGED << binary, tbfheader, binary_index >>
    /\ s_idx' = s_idx + 1
    /\ UNCHANGED << inputs, pc, sections_sort, minimum_ram_size, rel_sections,
                    writeable_flash_regions_count, header_length,
                    protected_region_size, relocation_binary,
                    post_content_pad, output >>

\* lines 266-273: panic!("Duplicate entry point in {} section")
DuplicateEntryPoint ==
    /\ pc = "layout"
    /\ s_idx <= Len(sections_sort)
    /\ IsEntryBearing(input.entry, CurrentSection)
    /\ entry_point_found
    /\ pc' = "panic_duplicate_entry"
    /\ UNCHANGED << inputs, sections_sort, minimum_ram_size, rel_sections,
                    writeable_flash_regions_count, binary_index, tbfheader,
                    header_length, protected_region_size, init_fn_offset,
                    binary, entry_point_found, s_idx, relocation_binary,
                    post_content_pad, output >>

\* lines 323-325
SetInitFnOffset ==
    /\ pc = "layout"
    /\ s_idx > Len(sections_sort)
    /\ tbfheader' = TbfSetInitFnOffset(tbfheader, init_fn_offset)
    /\ pc' = "reloc"
    /\ UNCHANGED << inputs, sections_sort, minimum_ram_size, rel_sections,
                    writeable_flash_regions_count, binary_index,
                    header_length, protected_region_size, init_fn_offset,
                    binary, entry_point_found, s_idx, relocation_binary,
                    post_content_pad, output >>

\* lines 327-361
PackRelocations ==
    /\ pc = "reloc"
    /\ relocation_binary' = PackRelocationData(input.sections, rel_sections)
    /\ pc' = "pad"
    /\ UNCHANGED << inputs, sections_sort, minimum_ram_size, rel_sections,
                    writeable_flash_regions_count, binary_index, tbfheader,
                    header_length, protected_region_size, init_fn_offset,
                    binary, entry_point_found, s_idx, post_content_pad,
                    output >>

\* lines 363-380
PadAndSetTotalSize ==
    /\ pc = "pad"
    /\ LET prepad == PrePadLength(binary_index, relocation_binary)
           pad == PostContentPad(prepad)
       IN /\ post_content_pad' = pad
          /\ binary_index' = prepad + pad
          /\ tbfheader' = TbfSetTotalSize(tbfheader, U32(prepad + pad))
    /\ pc' = "write_header"
    /\ UNCHANGED << inputs, sections_sort, minimum_ram_size, rel_sections,
                    writeable_flash_regions_count, header_length,
                    protected_region_size, init_fn_offset, binary,
                    entry_point_found, s_idx, relocation_binary, output >>

Write(bytes, next) ==
    /\ output' = output \o bytes
    /\ pc' = next
    /\ UNCHANGED << inputs, sections_sort, minimum_ram_size, rel_sections,
                    writeable_flash_regions_count, binary_index,
                    header_length, protected_region_size, init_fn_offset,
                    binary, entry_point_found, s_idx, relocation_binary,
                    post_content_pad >>

\* line 387
WriteHeader ==
    /\ pc = "write_header"
    /\ tbfheader' = [tbfheader EXCEPT !.calls = Append(@, "generate")]
    /\ Write(TbfGenerate(tbfheader), "write_binary")

\* line 388
WriteBinary ==
    /\ pc = "write_binary"
    /\ Write(binary, "write_rel_len")
    /\ UNCHANGED tbfheader

\* lines 390-391
WriteRelocationLength ==
    /\ pc = "write_rel_len"
    /\ Write(ToLeBytes(U32(Len(relocation_binary))), "write_rel")
    /\ UNCHANGED tbfheader

\* line 392
WriteRelocation ==
    /\ pc = "write_rel"
    /\ Write(relocation_binary, "write_pad")
    /\ UNCHANGED tbfheader

\* lines 394-397: do_pad, then Ok(())
WritePad ==
    /\ pc = "write_pad"
    /\ Write(DoPad(<< >>, post_content_pad), "done")
    /\ UNCHANGED tbfheader

WritePcs == { "write_header", "write_binary", "write_rel_len", "write_rel",
              "write_pad" }

\* lines 387-395: a write_all that fails returns its io::Error through `?`.
\* What a failed write left in the sink is not modelled: the output stays as
\* the last complete write left it.
WriteFails ==
    /\ pc \in WritePcs
    /\ pc' = "err_io"
    /\ UNCHANGED << inputs, sections_sort, minimum_ram_size, rel_sections,
                    writeable_flash_regions_count, binary_index, tbfheader,
                    header_length, protected_region_size, init_fn_offset,
                    binary, entry_point_found, s_idx, relocation_binary,
                    post_content_pad, output >>

Next ==
    \/ SortSections
    \/ ComputeRam
    \/ ScanSections
    \/ CreateHeader
    \/ ProtectedRegionTooSmall
    \/ ProtectedRegionFixed
    \/ ProtectedRegionDefault
    \/ LayoutSection
    \/ DuplicateEntryPoint
    \/ SetInitFnOffset
    \/ PackRelocations
    \/ PadAndSetTotalSize
    \/ WriteHeader
    \/ WriteBinary
    \/ WriteRelocationLength
    \/ WriteRelocation
    \/ WritePad
    \/ WriteFails

Spec == Init /\ [][Next]_vars

SpecReloc == InitReloc /\ [][Next]_vars

SpecRam == InitRam /\ [][Next]_vars

-----------------------------------------------------------------------------
(* What the claims speak of, stated from the ELF file alone.               *)

NumSections == Len(input.sections)

\* section i is laid out before section j: by file offset, then by position
LaidBefore(i, j) ==
    \/ input.sections[i].offset < input.sections[j].offset
    \/ /\ input.sections[i].offset = input.sections[j].offset
       /\ i < j

RankOf(i) == Cardinality({ j \in 1..NumSections : LaidBefore(j, i) }) + 1

\* the k-th section in ascending file-offset order, ties in file order
Laid(k) == input.sections[CHOOSE i \in 1..NumSections : RankOf(i) = k]

NameHas(name, pat) ==
    \E a \in 1..(Len(name) - Len(pat) + 1) :
        \A b \in 1..Len(pat) : name[a + b - 1] = pat[b]

\* has one of the flags W, X, A; is PROGBITS; is not empty
IsContent(sec) ==
    /\ sec.flags \in 1..7
    /\ sec.shtype = 1
    /\ sec.size >= 1

HoldsEntry(sec) ==
    /\ input.entry \in sec.addr..(sec.addr + sec.size - 1)
    /\ ~NameHas(sec.name, << "d", "e", "b", "u", "g" >>)

EntryPositions == { k \in 1..NumSections : HoldsEntry(Laid(k)) }

\* the second entry-bearing section in layout order
SecondEntryPosition ==
    CHOOSE k \in EntryPositions :
        Cardinality({ j \in EntryPositions : j < k }) = 1

RECURSIVE ContentBefore(_)
\* bytes of section content laid out before the k-th section
ContentBefore(k) ==
    IF k <= 1 THEN 0
    ELSE ContentBefore(k - 1)
         + (IF IsContent(Laid(k - 1)) THEN Laid(k - 1).size ELSE 0)

Filler == protected_region_size - tbfheader.length

\* index in the content buffer at which the k-th section starts
StartPosition(k) == Filler + ContentBefore(k)

RECURSIVE ContentBytes(_)
\* the data of the content sections among the first k, in layout order
ContentBytes(k) ==
    IF k = 0 THEN << >>
    ELSE ContentBytes(k - 1) \o (IF IsContent(Laid(k)) THEN Laid(k).data ELSE << >>)

\* layout positions of the content sections that are writeable flash regions
WfrContentPositions ==
    SelectSeq([k \in 1..NumSections |-> k],
              LAMBDA k : IsContent(Laid(k))
                         /\ NameHas(Laid(k).name, << ".", "w", "f", "r" >>))

IsPowerOfTwo(n) == \E k \in 0..30 : n = Pow2(k)

BeforeLayout == pc \in { "sort", "ram", "scan", "create", "protect",
                         "panic_overflow" }

-----------------------------------------------------------------------------
(* The claims.                                                             *)

\* C1: when the conversion returns Ok, the size given to set_total_size is
\* the number of bytes written: header + filler + every content section's
\* data + 4 + relocation bytes + padding.
TotalSizeIsBytesWritten ==
    pc = "done" =>
        /\ tbfheader.total_size = Len(output)
        /\ Len(output) = tbfheader.length + Filler
                         + ContentBefore(NumSections + 1) + 4
                         + Len(relocation_binary) + post_content_pad

TotalSizeWitness ==
    /\ pc = "done"
    /\ Filler > 0
    /\ ContentBefore(NumSections + 1) > 0
    /\ Len(relocation_binary) > 0
    /\ post_content_pad > 0

\* C2 (as claimed): when the conversion returns Ok, the recorded total size
\* is a power of two and at least 512.
TotalSizeIsPowerOfTwoAtLeast512 ==
    pc = "done" =>
        /\ IsPowerOfTwo(tbfheader.total_size)
        /\ tbfheader.total_size >= 512

\* C2 (what the code does): the recorded total size is a power of two; it is
\* at least 512 unless the length before padding is itself a power of two.
TotalSizeIsPowerOfTwo ==
    pc = "done" =>
        /\ IsPowerOfTwo(tbfheader.total_size)
        /\ post_content_pad > 0 => tbfheader.total_size >= 512

DuplicateEntryFails ==
    /\ pc = "panic_duplicate_entry" =>
          /\ Cardinality(EntryPositions) >= 2
          /\ s_idx = SecondEntryPosition
          /\ output = << >>
          /\ ~Called(tbfheader, "generate")
    /\ pc = "layout" =>
          Cardinality({ k \in 1..(s_idx - 1) : HoldsEntry(Laid(k)) }) <= 1
    /\ pc = "reloc" => Cardinality(EntryPositions) <= 1

DuplicateEntryWitness ==
    /\ pc = "panic_duplicate_entry"
    /\ Len(binary) > Filler
    /\ NumSections = 2

\* C6: a protected-region size below the header length ends the conversion
\* with the "too small" error before any layout, with no setter called and
\* nothing written; any other size passes, set_protected_size gets the size
\* less the header length, and from then on the protected region is never
\* smaller than the header.
ProtectedRegionChecked ==
    /\ pc = "err_too_small" =>
          /\ IsSome(protected_region_size_arg)
          /\ Unwrap(protected_region_size_arg) < tbfheader.length
          /\ tbfheader.calls = << "create" >>
          /\ output = << >>
          /\ binary = << >>
          /\ binary_index = 0
          /\ s_idx = 0
    /\ (~BeforeLayout /\ IsSome(protected_region_size_arg)) =>
          IF Unwrap(protected_region_size_arg) < tbfheader.length
          THEN pc = "err_too_small"
          ELSE /\ pc # "err_too_small"
               /\ Called(tbfheader, "set_protected_size")
               /\ tbfheader.protected_size
                     = Unwrap(protected_region_size_arg) - tbfheader.length
               /\ protected_region_size = Unwrap(protected_region_size_arg)
    /\ (~BeforeLayout /\ pc # "err_too_small") =>
          protected_region_size >= tbfheader.length

ProtectedRegionWitness ==
    /\ pc = "err_too_small"
    /\ tbfheader.wfr_slots > 0
    /\ Unwrap(protected_region_size_arg) = 40

WfrOffsetIsContentIndex ==
    pc \in { "reloc", "done" } =>
        \A m \in 1..Len(tbfheader.wfr_values) :
            m <= Len(WfrContentPositions) =>
                tbfheader.wfr_values[m] =
                    << StartPosition(WfrContentPositions[m]),
                       Laid(WfrContentPositions[m]).size >>

\* C9 (amended): after the layout pass (pc = "reloc") and when the conversion
\* returns Ok, each recorded pair is (offset of the section's first byte
\* from the start of the image, header included; section size), one pair per
\* writeable-flash-region content section, in layout order.
WfrOffsetIsImageOffset ==
    pc \in { "reloc", "done" } =>
        /\ Len(tbfheader.wfr_values) = Len(WfrContentPositions)
        /\ \A m \in 1..Len(WfrContentPositions) :
              LET sec == Laid(WfrContentPositions[m])
                  off == tbfheader.length + StartPosition(WfrContentPositions[m])
              IN /\ tbfheader.wfr_values[m] = << off, sec.size >>
                 /\ pc = "done" =>
                       SubSeq(output, off + 1, off + sec.size) = sec.data

WfrOffsetWitness ==
    /\ pc = "done"
    /\ Len(tbfheader.wfr_values) = 1
    /\ tbfheader.wfr_values[1][1] > protected_region_size
    /\ Filler > 0

\* C10 (as claimed): after the layout pass there is one recorded pair for
\* every section whose name contains ".wfr" and whose size is > 0, as many
\* as the header was sized for.
WfrValuesMatchCount ==
    pc \in { "reloc", "done" } =>
        /\ tbfheader.wfr_slots =
              Cardinality({ i \in 1..NumSections :
                  /\ NameHas(input.sections[i].name, << ".", "w", "f", "r" >>)
                  /\ input.sections[i].size > 0 })
        /\ Len(tbfheader.wfr_values) = tbfheader.wfr_slots

-----------------------------------------------------------------------------
(* Relocation block and RAM size, stated from the ELF file alone.          *)

\* the data of the first section named ".rel" + name, or nothing
CompanionData(name) ==
    LET relname == << ".", "r", "e", "l" >> \o name
        found == { i \in 1..NumSections : input.sections[i].name = relname }
    IN IF found = {} THEN << >>
       ELSE input.sections[CHOOSE i \in found : \A j \in found : i <= j].data

RECURSIVE ExpectedRelocation(_)
\* the companions' data of the writeable+allocated sections among the first
\* k, in layout order
ExpectedRelocation(k) ==
    IF k = 0 THEN << >>
    ELSE ExpectedRelocation(k - 1)
         \o (IF Laid(k).flags = 3 THEN CompanionData(Laid(k).name) ELSE << >>)

FromLeBytes(b) == b[1] + 256 * b[2] + 65536 * b[3] + 16777216 * b[4]

FirstRwSegment ==
    LET rw == { i \in 1..Len(input.phdrs) :
                  input.phdrs[i].progtype = 1 /\ input.phdrs[i].flags = 6 }
    IN IF rw = {} THEN << 0, 0 >>
       ELSE input.phdrs[CHOOSE i \in rw : \A j \in rw : i <= j].memsz

\* x rounded up to a multiple of m, for m a divisor of 2^16
RoundUp(x, m) == WNorm(x[1], ((x[2] + m - 1) \div m) * m)

\* C4 (as claimed): the minimum RAM size the header is created with is the
\* memsz of the first read+write loadable segment (0 without one) + the
\* stack rounded up to 8 + each heap rounded up to 4.
MinimumRamIsSum ==
    Called(tbfheader, "create") =>
        tbfheader.minimum_ram_size =
            WAdd(WAdd(FirstRwSegment, RoundUp(stack_len, 8)),
                 WAdd(RoundUp(app_heap_len, 4), RoundUp(kernel_heap_len, 4)))

\* C4 (what the code does): the header is created with that sum cut to 32
\* bits, which is the sum itself whenever the sum is below 2^32.
MinimumRamIsSumModulo ==
    Called(tbfheader, "create") =>
        tbfheader.minimum_ram_size =
            WU32(WAdd(WAdd(FirstRwSegment, RoundUp(stack_len, 8)),
                      WAdd(RoundUp(app_heap_len, 4), RoundUp(kernel_heap_len, 4))))

=============================================================================
